---- MODULE Spec2Model ----
(***************************************************************************)
(* Score-based posterior sampler of sbi: the predictor registry and the    *)
(* predictor classes (sbi/samplers/score/predictors.py) and the Diffuser   *)
(* that drives them (sbi/samplers/score/score.py).                         *)
(*                                                                         *)
(* Tensors are modelled by what the code under study reads of them: a      *)
(* particle batch by its shape, the initialize call that drew it and the   *)
(* predictor/corrector steps applied to it since; a moment tensor by its   *)
(* shape.  Python exceptions are modelled by the name of the exception.    *)
(***************************************************************************)
EXTENDS Integers, Sequences, FiniteSets, TLC

(* ------------------------------ bounds -------------------------------- *)
\* longest time schedule ts handed to Diffuser.run
MaxLen == 3
\* number of Diffuser.run calls followed on one Diffuser
MaxRuns == 2
\* largest num_samples handed to run / initialize
MaxSamples == 2
\* largest value of alpha_fn / std_fn tried in predict
MaxScale == 2
\* largest magnitude returned by a caller's bridge function
MaxBridge == 3
\* latest time handed to EulerMaruyama.predict
MaxTime == 2
\* largest size of a tensor dimension, and most dimensions of init_mean
MaxDim == 2
MaxRank == 3

\* default of the eta parameter of EulerMaruyama.__init__ and DDIM.__init__
DefaultEta == 1

\* values of eta tried by callers (the code takes any float)
Etas == {-1, 0, 1, 2}

(* ------------------------- the environment ---------------------------- *)
\* The score-based potentials handed to the constructors.  A potential is
\* read only through score_estimator's attributes; estimator tells whether
\* score_estimator is a VEScoreEstimator.  Tensors are given by shape.
ScorePotentials ==
  { [name |-> "ve_potential", estimator |-> "VE", device |-> "cpu",
     T_min |-> 0, T_max |-> 1, mean_T |-> <<2>>, std_T |-> <<2>>,
     input_shape |-> <<2>>, condition_shape |-> <<3>>, x_o_shape |-> <<2, 3>>],
    [name |-> "vp_potential", estimator |-> "VP", device |-> "cuda",
     T_min |-> 0, T_max |-> 1, mean_T |-> <<1, 1>>, std_T |-> <<>>,
     input_shape |-> <<1>>, condition_shape |-> <<2>>, x_o_shape |-> <<2>>] }

\* A potential whose score_estimator is neither a VEScoreEstimator nor the
\* variance-preserving one (sub-VP), handed to DDIM
OtherPotentials ==
  { [name |-> "subvp_potential", estimator |-> "subVP", device |-> "cpu",
     T_min |-> 0, T_max |-> 1, mean_T |-> <<1>>, std_T |-> <<1>>,
     input_shape |-> <<1>>, condition_shape |-> <<1>>, x_o_shape |-> <<1>>] }

\* Types a caller may hand to register_predictor.  subclass: the type is a
\* subclass of Predictor; predict: the type defines a concrete predict
\* method of its own (a subclass without one inherits the abstract predict).
PredictorTypes ==
  { [cls |-> "EulerMaruyama", subclass |-> TRUE,  predict |-> TRUE],
    [cls |-> "DDIM",          subclass |-> TRUE,  predict |-> TRUE],
    [cls |-> "AbstractStep",  subclass |-> TRUE,  predict |-> FALSE],
    [cls |-> "DuckStep",      subclass |-> FALSE, predict |-> TRUE],
    [cls |-> "PlainObject",   subclass |-> FALSE, predict |-> FALSE] }

TypeOf(c) == CHOOSE t \in PredictorTypes : t.cls = c

\* names used for registration and lookup
Names == {"euler_maruyma", "ddim", "euler_maruyama", "mine"}

\* std_bridge arguments of DDIM.__init__: None or a caller's function
BridgeArgs == {"None", "user_bridge"}

NoPredictor == [cls |-> "None"]
NoDiffuser == [predictor |-> NoPredictor]
NoBatch == [noise |-> 0]

\* result of a call: the exception raised ("none" if it returned) and the value
Ok(v) == [err |-> "none", val |-> v]
Raise(e) == [err |-> e, val |-> NoPredictor]

(* --------------------------- predictors.py ---------------------------- *)
\* Predictor.__init__: binds the potential and reads its device
PredictorInit(cls, score_fn) ==
  [cls |-> cls, score_fn |-> score_fn.name, device |-> score_fn.device]

\* EulerMaruyama.__init__ without its assertion
EulerMaruyamaInit_unchecked(score_fn, eta) ==
  Ok([cls |-> "EulerMaruyama", score_fn |-> score_fn.name,
      device |-> score_fn.device, eta |-> eta])

\* EulerMaruyama.__init__(score_fn, eta): assert eta > 0, then store eta
EulerMaruyamaInit(score_fn, eta) ==
  IF eta > 0
    THEN Ok([cls |-> "EulerMaruyama", score_fn |-> score_fn.name,
             device |-> score_fn.device, eta |-> eta])
    ELSE Raise("AssertionError")

\* DDIM.__init__ with the estimator tested before the argument: on a
\* variance-exploding estimator the caller's bridge is ignored
DDIMInit_estimator_first(score_fn, std_bridge, eta) ==
  Ok([cls |-> "DDIM", score_fn |-> score_fn.name, device |-> score_fn.device,
      eta |-> eta,
      std_bridge |-> IF score_fn.estimator = "VE" THEN "ve_default_bridge"
                     ELSE IF std_bridge # "None" THEN std_bridge
                     ELSE "vp_default_bridge"])

\* DDIM.__init__(score_fn, std_bridge, eta): stores eta unchecked and picks
\* the bridge function
DDIMInit(score_fn, std_bridge, eta) ==
  Ok([cls |-> "DDIM", score_fn |-> score_fn.name, device |-> score_fn.device,
      eta |-> eta,
      std_bridge |-> IF std_bridge # "None" THEN std_bridge
                     ELSE IF score_fn.estimator = "VE" THEN "ve_default_bridge"
                     ELSE "vp_default_bridge"])

\* Calling a registered type with (score_based_potential): a subclass that
\* leaves predict abstract cannot be instantiated (ABC raises TypeError).
Instantiate(cls, score_fn) ==
  CASE cls = "EulerMaruyama" -> EulerMaruyamaInit(score_fn, DefaultEta)
    [] cls = "DDIM" -> DDIMInit(score_fn, "None", DefaultEta)
    [] OTHER -> IF TypeOf(cls).predict
                  THEN Ok(PredictorInit(cls, score_fn))
                  ELSE Raise("TypeError")

\* get_predictor with a default class for an unregistered name, as
\* PREDICTORS.get(name, EulerMaruyama) would give
get_predictor_with_default(registry, name, score_fn) ==
  Instantiate(IF name \in DOMAIN registry THEN registry[name] ELSE "EulerMaruyama",
              score_fn)

\* get_predictor(name, score_based_potential): PREDICTORS[name](potential)
get_predictor(registry, name, score_fn) ==
  IF name \in DOMAIN registry
    THEN Instantiate(registry[name], score_fn)
    ELSE Raise("KeyError")

\* PREDICTORS.setdefault(name, predictor): an entry already present is kept
RegistryPut_keep_first(registry, name, cls) ==
  [n \in DOMAIN registry \cup {name} |->
     IF n \in DOMAIN registry THEN registry[n] ELSE cls]

\* PREDICTORS[name] = predictor
RegistryPut(registry, name, cls) ==
  [n \in DOMAIN registry \cup {name} |-> IF n = name THEN cls ELSE registry[n]]

\* register_predictor without its assertion
register_predictor_unchecked(registry, name, t) ==
  [err |-> "none", registry |-> RegistryPut(registry, name, t.cls)]

\* register_predictor(name)(predictor): the registry after the call, and
\* the exception raised
register_predictor(registry, name, t) ==
  IF t.subclass
    THEN [err |-> "none", registry |-> RegistryPut(registry, name, t.cls)]
    ELSE [err |-> "AssertionError", registry |-> registry]

\* the registry the decorators would leave with the first name spelled
\* "euler_maruyama"
LoadedRegistry_spelled ==
  register_predictor(
    register_predictor(<<>>, "euler_maruyama", TypeOf("EulerMaruyama")).registry,
    "ddim", TypeOf("DDIM")).registry

\* the registry after the module is loaded: the two decorated classes
LoadedRegistry ==
  register_predictor(
    register_predictor(<<>>, "euler_maruyma", TypeOf("EulerMaruyama")).registry,
    "ddim", TypeOf("DDIM")).registry

(* ----------------------------- score.py ------------------------------- *)
\* Corrector arguments that are neither None nor a string.  attrs: which of
\* the attributes correct and __call__ the object has; correct, call: the
\* parameters inspect.signature reports for them (self already bound).
CorrectorObjects ==
  { [name |-> "corrector_instance", attrs |-> {"correct", "__call__"},
     correct |-> <<"theta", "t0">>, call |-> <<"theta", "t0">>],
    [name |-> "function_theta_t0", attrs |-> {"__call__"},
     correct |-> <<>>, call |-> <<"theta", "t0">>],
    [name |-> "function_theta", attrs |-> {"__call__"},
     correct |-> <<>>, call |-> <<"theta">>],
    [name |-> "correct_only", attrs |-> {"correct"},
     correct |-> <<"theta", "t0">>, call |-> <<>>],
    [name |-> "call_takes_theta", attrs |-> {"correct", "__call__"},
     correct |-> <<"theta", "t0">>, call |-> <<"theta">>],
    [name |-> "correct_takes_theta", attrs |-> {"correct", "__call__"},
     correct |-> <<"theta">>, call |-> <<"theta", "t0">>],
    [name |-> "correct_takes_three", attrs |-> {"correct", "__call__"},
     correct |-> <<"theta", "t0", "steps">>,
     call |-> <<"theta", "t0", "steps">>] }

NoCorrector == [name |-> "None", attrs |-> {}, correct |-> <<>>, call |-> <<>>]

\* corrector names a caller may pass as a string
CorrectorNames == {"langevin", "unknown"}

\* sbi/samplers/score/correctors.py: the corrector registry, by the names it
\* holds, and the instance get_corrector builds for a registered name
CORRECTORS == {"langevin"}

get_corrector(name) ==
  IF name \in CORRECTORS
    THEN [err |-> "none",
          val |-> [name |-> name, attrs |-> {"correct", "__call__"},
                   correct |-> <<"theta", "t0">>, call |-> <<"theta", "t0">>]]
    ELSE [err |-> "KeyError", val |-> NoCorrector]

\* the arguments of Diffuser.__init__ / the setters: a string or an object
Str(s) == [str |-> TRUE, name |-> s]
Obj(o) == [str |-> FALSE, obj |-> o]

\* Diffuser.set_predictor(predictor, score_based_potential)
set_predictor(self, registry, predictor, score_fn) ==
  IF predictor.str
    THEN LET got == get_predictor(registry, predictor.name, score_fn)
         IN  IF got.err = "none"
               THEN [err |-> "none", self |-> [self EXCEPT !.predictor = got.val]]
               ELSE [err |-> got.err, self |-> self]
    ELSE [err |-> "none", self |-> [self EXCEPT !.predictor = predictor.obj]]

\* Diffuser.set_corrector(corrector): an object is stored first and its
\* correct attribute inspected afterwards
set_corrector(self, corrector) ==
  IF corrector = Obj(NoCorrector)
    THEN [err |-> "none", self |-> [self EXCEPT !.corrector = NoCorrector]]
  ELSE IF corrector.str
    THEN LET got == get_corrector(corrector.name)
         IN  IF got.err = "none"
               THEN [err |-> "none", self |-> [self EXCEPT !.corrector = got.val]]
               ELSE [err |-> got.err, self |-> self]
  ELSE LET stored == [self EXCEPT !.corrector = corrector.obj]
       IN  IF "correct" \notin corrector.obj.attrs
             THEN [err |-> "AttributeError", self |-> stored]
           ELSE IF Len(corrector.obj.correct) # 2
             THEN [err |-> "AssertionError", self |-> stored]
           ELSE [err |-> "none", self |-> stored]

\* a Python slice shape[:-k]
SliceToMinus(shape, k) ==
  IF k = 0 \/ k >= Len(shape) THEN <<>> ELSE SubSeq(shape, 1, Len(shape) - k)

\* the object under construction before __init__ assigns anything
BlankDiffuser == [predictor |-> NoPredictor, corrector |-> NoCorrector]

\* Diffuser.__init__(score_based_potential, predictor, corrector)
DiffuserInit(registry, score_fn, predictor, corrector) ==
  LET p == set_predictor(BlankDiffuser, registry, predictor, score_fn)
      c == set_corrector(p.self, corrector)
  IN  IF p.err # "none" THEN [err |-> p.err, val |-> NoDiffuser]
      ELSE IF c.err # "none" THEN [err |-> c.err, val |-> NoDiffuser]
      ELSE [err |-> "none",
            val |-> [predictor |-> c.self.predictor,
                     corrector |-> c.self.corrector,
                     device |-> c.self.predictor.device,
                     T_min |-> score_fn.T_min, T_max |-> score_fn.T_max,
                     init_mean |-> score_fn.mean_T, init_std |-> score_fn.std_T,
                     input_shape |-> score_fn.input_shape,
                     condition_shape |-> score_fn.condition_shape,
                     batch_shape |-> SliceToMinus(score_fn.x_o_shape,
                                                  Len(score_fn.condition_shape))]]

(* ----------------------------- tensors -------------------------------- *)
RECURSIVE numel(_)
\* torch.Size.numel(): the product of the sizes
numel(shape) == IF shape = <<>> THEN 1 ELSE Head(shape) * numel(Tail(shape))

\* size of dimension k counted from the right (1 = last), 1 when absent
DimFromRight(shape, k) == IF k <= Len(shape) THEN shape[Len(shape) + 1 - k] ELSE 1

Max(a, b) == IF a >= b THEN a ELSE b

\* torch broadcasting of two shapes: right-aligned, sizes equal or one of
\* them 1; ok is FALSE when the shapes do not broadcast
Broadcast2(a, b) ==
  LET n == Max(Len(a), Len(b))
  IN  [ok |-> \A k \in 1..n : \/ DimFromRight(a, k) = DimFromRight(b, k)
                              \/ DimFromRight(a, k) = 1
                              \/ DimFromRight(b, k) = 1,
       shape |-> [j \in 1..n |-> Max(DimFromRight(a, n + 1 - j),
                                     DimFromRight(b, n + 1 - j))]]

\* torch.broadcast_tensors(mean, std, eps): the common shape
broadcast_tensors(mean, std, eps) ==
  LET ms == Broadcast2(mean, std)
      all == Broadcast2(ms.shape, eps)
  IN  [ok |-> ms.ok /\ all.ok, shape |-> all.shape]

\* initialize drawing eps with the sample dimension first
initialize_samples_first(self, num_samples) ==
  LET num_batch == numel(self.batch_shape)
      eps == <<num_samples, num_batch>> \o self.input_shape
      b == broadcast_tensors(self.init_mean, self.init_std, eps)
  IN  IF b.ok THEN [err |-> "none", shape |-> b.shape]
      ELSE [err |-> "RuntimeError", shape |-> <<>>]

\* Diffuser.initialize(num_samples): the shape of mean + std * eps, or the
\* RuntimeError of a failed broadcast
initialize(self, num_samples) ==
  LET num_batch == numel(self.batch_shape)
      eps == <<num_batch, num_samples>> \o self.input_shape
      b == broadcast_tensors(self.init_mean, self.init_std, eps)
  IN  IF b.ok THEN [err |-> "none", shape |-> b.shape]
      ELSE [err |-> "RuntimeError", shape |-> <<>>]

\* the predictor call of run's loop body, theta = self.predictor(theta, t1, t0)
\* (Predictor.__call__ forwards to predict).  outcome: "none" when predict
\* returns, else the exception it raises.
apply_predictor(self, theta, t1, t0, outcome) ==
  IF outcome = "none"
    THEN [err |-> "none",
          theta |-> [theta EXCEPT !.steps = Append(@, <<"predict", t1, t0>>)]]
    ELSE [err |-> outcome, theta |-> theta]

\* the corrector call of run's loop body, theta = self.corrector(theta, t0):
\* Python raises TypeError when the object is not callable or does not take
\* two arguments.
apply_corrector(self, theta, t0, outcome) ==
  IF "__call__" \notin self.corrector.attrs \/ Len(self.corrector.call) # 2
    THEN [err |-> "TypeError", theta |-> theta]
  ELSE IF outcome = "none"
    THEN [err |-> "none",
          theta |-> [theta EXCEPT !.steps = Append(@, <<"correct", t0>>)]]
  ELSE [err |-> outcome, theta |-> theta]

\* run keeping the batch of the first call and starting every call from it
run_start_cached(self, num_samples, k) ==
  LET r == initialize(self, num_samples)
  IN  [err |-> r.err, theta |-> [noise |-> 1, shape |-> r.shape, steps |-> <<>>]]

\* run, first statement: theta = self.initialize(num_samples); k numbers the
\* initialize calls, so that batches of different draws differ
run_start(self, num_samples, k) ==
  LET r == initialize(self, num_samples)
  IN  [err |-> r.err, theta |-> [noise |-> k, shape |-> r.shape, steps |-> <<>>]]

\* the loop header with the last pair left out, range(1, ts.numel() - 1)
in_range_short(ts, i) == 1 <= i /\ i <= Len(ts) - 2

\* the loop header, for i in range(1, ts.numel())
in_range(ts, i) == 1 <= i /\ i <= Len(ts) - 1

\* t1 = ts[i - 1]; t0 = ts[i]   (Python counts from 0, TLA+ from 1)
step_times(ts, i) == [t1 |-> ts[i], t0 |-> ts[i + 1]]

\* the loop body with the predictor call wrapped in try/except: the
\* exception is dropped and the loop goes on
after_predictor_swallowing(self, e) ==
  IF self.corrector # NoCorrector THEN "correct" ELSE "loop"

\* where control goes after the predictor call: an exception leaves run, a
\* configured corrector comes next, else the next iteration
after_predictor(self, e) ==
  IF e # "none" THEN "raised"
  ELSE IF self.corrector # NoCorrector THEN "correct" ELSE "loop"

\* where control goes after the corrector call
after_corrector(self, e) == IF e # "none" THEN "raised" ELSE "loop"

(* ------------------- predict: exact arithmetic ------------------------ *)
\* A real of the form s * sqrt(n / d), s the sign, n >= 0 and d > 0 integers;
\* this holds every value DDIM.predict compares, exactly.  d = 0 is NaN.
NaN == [s |-> 0, n |-> 0, d |-> 0]
IsNaN(v) == v.d = 0
Sign(x) == IF x > 0 THEN 1 ELSE IF x < 0 THEN -1 ELSE 0
\* the integer x
Real(x) == [s |-> Sign(x), n |-> x * x, d |-> 1]
\* eta * v, eta an integer
Scale(eta, v) ==
  IF IsNaN(v) THEN NaN
  ELSE [s |-> Sign(eta) * v.s, n |-> eta * eta * v.n, d |-> v.d]
\* v <= x, x a positive integer (false for NaN, as every comparison with NaN)
AtMost(v, x) == ~IsNaN(v) /\ (v.s <= 0 \/ v.n <= x * x * v.d)

\* vp_default_bridge: std_new / std * sqrt(1 - alpha / alpha_new); the square
\* root of a negative number is NaN
vp_default_bridge(alpha, alpha_new, std, std_new) ==
  IF alpha_new - alpha < 0 THEN NaN
  ELSE [s |-> Sign(alpha_new - alpha),
        n |-> std_new * std_new * (alpha_new - alpha),
        d |-> std * std * alpha_new]

\* ve_default_bridge: std_new / std
ve_default_bridge(alpha, alpha_new, std, std_new) ==
  [s |-> 1, n |-> std_new * std_new, d |-> std * std]

\* torch.clip(v, max=std): NaN stays NaN, values above std become std
clip_max(v, std) ==
  IF IsNaN(v) THEN NaN ELSE IF AtMost(v, std) THEN v ELSE Real(std)

\* DDIM.predict, the part that decides whether new_position is a number.
\* alpha, std, alpha_new, std_new: alpha_fn and std_fn at t1 and t0 (positive);
\* user: what the caller's bridge function returns for them.
\*   bridge     : what the bridge function returned
\*   std_bridge : eta * bridge after the clip
\*   radicand   : std**2 - std_bridge**2, as the fraction n / d
\*   nan        : new_position is NaN (std_bridge is, or the radicand is
\*                negative and its square root NaN)
DDIMPredict(self, alpha, alpha_new, std, std_new, user) ==
  LET bridge == CASE self.std_bridge = "ve_default_bridge" ->
                       ve_default_bridge(alpha, alpha_new, std, std_new)
                  [] self.std_bridge = "vp_default_bridge" ->
                       vp_default_bridge(alpha, alpha_new, std, std_new)
                  [] OTHER -> Real(user)
      std_bridge == clip_max(Scale(self.eta, bridge), std)
      radicand == IF IsNaN(std_bridge) THEN [n |-> 0, d |-> 0]
                  ELSE [n |-> std * std * std_bridge.d - std_bridge.n,
                        d |-> std_bridge.d]
  IN  [fn |-> "DDIM.predict", std |-> std, bridge |-> bridge,
       std_bridge |-> std_bridge, radicand |-> radicand,
       nan |-> IsNaN(std_bridge) \/ radicand.n < 0]

\* The forward SDE of the estimator behind a potential, on the integer grid
\* (score_estimator.drift_fn, diffusion_fn and the potential's score).
drift_fn(score_fn, theta, t) == IF score_fn = "ve_potential" THEN 0 ELSE -(t * theta)
diffusion_fn(score_fn, theta, t) == t + 1
score_of(score_fn, theta, t) == t - theta

\* EulerMaruyama.predict with the SDE coefficients and the score taken at
\* the time stepped to, t0
EulerMaruyamaPredict_at_t0(self, theta, t1, t0, noise) ==
  LET dt == t1 - t0
      f == drift_fn(self.score_fn, theta, t0)
      g == diffusion_fn(self.score_fn, theta, t0)
      score == score_of(self.score_fn, theta, t0)
      twice_f_backward == 2 * f - (1 + self.eta * self.eta) * g * g * score
      g_backward == self.eta * g
  IN  [fn |-> "EulerMaruyama.predict",
       twice_mean |-> 2 * theta - twice_f_backward * dt,
       coef |-> g_backward * noise, dt |-> dt, noise |-> noise,
       nan |-> dt < 0]

\* EulerMaruyama.predict(theta, t1, t0), torch.randn_like(theta) drawing
\* `noise`.  The result is mean + coef * sqrt(dt); twice the mean is kept,
\* since (1 + eta**2) / 2 need not be an integer.  torch.sqrt(dt) is NaN for
\* dt < 0, and so is every product and sum it enters: nan.
EulerMaruyamaPredict(self, theta, t1, t0, noise) ==
  LET dt == t1 - t0
      f == drift_fn(self.score_fn, theta, t1)
      g == diffusion_fn(self.score_fn, theta, t1)
      score == score_of(self.score_fn, theta, t1)
      twice_f_backward == 2 * f - (1 + self.eta * self.eta) * g * g * score
      g_backward == self.eta * g
  IN  [fn |-> "EulerMaruyama.predict",
       twice_mean |-> 2 * theta - twice_f_backward * dt,
       coef |-> g_backward * noise, dt |-> dt, noise |-> noise,
       nan |-> dt < 0]

(* ------------------------------ state --------------------------------- *)
VARIABLES
  PREDICTORS,   \* predictors.PREDICTORS: name -> registered class
  pred,         \* the caller's predictor: the last one built, or NoPredictor
  diffuser,     \* the caller's Diffuser, or NoDiffuser
  op,           \* the last call made by the caller, with its arguments
  err,          \* exception raised by the last call, "none" if it returned
  out,          \* what the last predict call returned, NoOut otherwise
  pc,           \* "idle", or the position inside / the outcome of run
  num_samples,  \* run's argument
  ts,           \* run's argument
  i,            \* run's loop variable
  theta,        \* run's local batch
  ret,          \* the batch run returned, NoBatch if it has not returned
  runs,         \* number of run calls made so far
  log           \* calls made by the current run, in order, with outcome

vars == <<PREDICTORS, pred, diffuser, op, err, out, pc, num_samples, ts, i,
          theta, ret, runs, log>>

NoOut == [fn |-> "None"]

\* no call of run is in progress
Quiet == pc \in {"idle", "returned", "raised"}

\* names under which callers register their own types
RegNames == {"ddim", "mine"}

\* schedules handed to run: of every length up to MaxLen, counting down (a
\* reverse-time grid) and counting up (run does not validate the schedule)
Schedules == {[k \in 1..n |-> n + 1 - k] : n \in 0..MaxLen}
             \cup {[k \in 1..n |-> k] : n \in 0..MaxLen}

\* what predict / correct may do when called: return, or raise
Outcomes == {"none", "RuntimeError"}

\* predictor instances the caller of Diffuser built beforehand: an
\* EulerMaruyama per potential and a DDIM, with arguments of the caller's own
BuiltPredictors ==
  {EulerMaruyamaInit(p, DefaultEta + 1).val : p \in ScorePotentials}
  \cup {DDIMInit(p, "user_bridge", 0).val : p \in {q \in ScorePotentials :
                                                     q.estimator = "VE"}}

Init ==
  /\ PREDICTORS = LoadedRegistry
  /\ pred = NoPredictor
  /\ diffuser = NoDiffuser
  /\ op = [fn |-> "import", args |-> <<>>]
  /\ err = "none"
  /\ out = NoOut
  /\ pc = "idle"
  /\ num_samples = 1
  /\ ts = <<>>
  /\ i = 1
  /\ theta = NoBatch
  /\ ret = NoBatch
  /\ runs = 0
  /\ log = <<>>

\* a call outside run ends: its exception is kept, run's frame is gone
Finish(fn, args, e) ==
  /\ op' = [fn |-> fn, args |-> args]
  /\ err' = e
  /\ pc' = "idle"
  /\ num_samples' = 1 /\ ts' = <<>> /\ i' = 1
  /\ theta' = NoBatch /\ ret' = NoBatch /\ log' = <<>>
  /\ runs' = runs

(* ------------------------ registry operations ------------------------- *)
\* register_predictor(name)(t)
RegisterPredictor(name, t) ==
  /\ Quiet
  /\ LET r == register_predictor(PREDICTORS, name, t)
     IN  /\ PREDICTORS' = r.registry
         /\ Finish("register_predictor", <<name, t.cls>>, r.err)
  /\ out' = NoOut
  /\ UNCHANGED <<pred, diffuser>>

\* pred = get_predictor(name, p)
GetPredictor(name, p) ==
  /\ Quiet
  /\ LET r == get_predictor(PREDICTORS, name, p)
     IN  /\ pred' = IF r.err = "none" THEN r.val ELSE pred
         /\ Finish("get_predictor", <<name, p.name>>, r.err)
  /\ out' = NoOut
  /\ UNCHANGED <<PREDICTORS, diffuser>>

\* pred = EulerMaruyama(p, eta)
NewEulerMaruyama(p, eta) ==
  /\ Quiet
  /\ LET r == EulerMaruyamaInit(p, eta)
     IN  /\ pred' = IF r.err = "none" THEN r.val ELSE pred
         /\ Finish("EulerMaruyama", <<p.name, eta>>, r.err)
  /\ out' = NoOut
  /\ UNCHANGED <<PREDICTORS, diffuser>>

\* pred = DDIM(p, std_bridge, eta)
NewDDIM(p, b, eta) ==
  /\ Quiet
  /\ LET r == DDIMInit(p, b, eta)
     IN  /\ pred' = IF r.err = "none" THEN r.val ELSE pred
         /\ Finish("DDIM", <<p.name, b, eta>>, r.err)
  /\ out' = NoOut
  /\ UNCHANGED <<PREDICTORS, diffuser>>

(* ------------------------- predictor calls ---------------------------- *)
\* pred(theta, t1, t0) on an EulerMaruyama: Predictor.__call__ -> predict
PredictEulerMaruyama(th, t1, t0, noise) ==
  /\ Quiet
  /\ pred.cls = "EulerMaruyama"
  /\ out' = EulerMaruyamaPredict(pred, th, t1, t0, noise)
  /\ Finish("predict", <<th, t1, t0>>, "none")
  /\ UNCHANGED <<PREDICTORS, pred, diffuser>>

\* pred(theta, t1, t0) on a DDIM, the estimator's alpha_fn and std_fn giving
\* alpha, std at t1 and alpha_new, std_new at t0
PredictDDIM(alpha, alpha_new, std, std_new, user) ==
  /\ Quiet
  /\ pred.cls = "DDIM"
  /\ out' = DDIMPredict(pred, alpha, alpha_new, std, std_new, user)
  /\ Finish("predict", <<alpha, alpha_new, std, std_new>>, "none")
  /\ UNCHANGED <<PREDICTORS, pred, diffuser>>

(* ------------------------ Diffuser operations ------------------------- *)
\* diffuser = Diffuser(p, predictor, corrector); one Diffuser is followed,
\* so the call is made until it succeeds
DiffuserNew(p, predictor, corrector) ==
  /\ Quiet
  /\ diffuser = NoDiffuser
  /\ LET r == DiffuserInit(PREDICTORS, p, predictor, corrector)
     IN  /\ diffuser' = IF r.err = "none" THEN r.val ELSE diffuser
         /\ Finish("Diffuser", <<p.name, predictor, corrector>>, r.err)
  /\ UNCHANGED <<PREDICTORS, pred, out>>

\* diffuser.set_corrector(corrector)
SetCorrector(corrector) ==
  /\ Quiet
  /\ diffuser # NoDiffuser
  /\ LET r == set_corrector(diffuser, corrector)
     IN  /\ diffuser' = r.self
         /\ Finish("set_corrector", <<corrector>>, r.err)
  /\ UNCHANGED <<PREDICTORS, pred, out>>

\* diffuser.run(n, sched) is entered and initialize is called
RunCall(n, sched) ==
  /\ Quiet
  /\ diffuser # NoDiffuser
  /\ runs < MaxRuns
  /\ runs' = runs + 1
  /\ op' = [fn |-> "run", args |-> <<n, sched>>]
  /\ num_samples' = n
  /\ ts' = sched
  /\ i' = 1
  /\ ret' = NoBatch
  /\ LET r == run_start(diffuser, n, runs + 1)
     IN  /\ err' = r.err
         /\ log' = <<[fn |-> "initialize", arg |-> NoBatch, t |-> <<n>>,
                      out |-> r.err]>>
         /\ theta' = IF r.err = "none" THEN r.theta ELSE NoBatch
         /\ pc' = IF r.err = "none" THEN "loop" ELSE "raised"
  /\ UNCHANGED <<PREDICTORS, pred, diffuser, out>>

\* one predictor call of the loop
RunPredict(outcome) ==
  /\ pc = "loop"
  /\ in_range(ts, i)
  /\ LET t == step_times(ts, i)
         r == apply_predictor(diffuser, theta, t.t1, t.t0, outcome)
     IN  /\ log' = Append(log, [fn |-> "predict", arg |-> theta,
                                t |-> <<t.t1, t.t0>>, out |-> r.err])
         /\ err' = r.err
         /\ pc' = after_predictor(diffuser, r.err)
         /\ theta' = IF pc' = "raised" THEN NoBatch ELSE r.theta
         /\ i' = IF pc' = "loop" THEN i + 1 ELSE i
  /\ UNCHANGED <<PREDICTORS, pred, diffuser, op, out, num_samples, ts, ret, runs>>

\* the corrector call of the loop
RunCorrect(outcome) ==
  /\ pc = "correct"
  /\ LET t == step_times(ts, i)
         r == apply_corrector(diffuser, theta, t.t0, outcome)
     IN  /\ log' = Append(log, [fn |-> "correct", arg |-> theta,
                                t |-> <<t.t0>>, out |-> r.err])
         /\ err' = r.err
         /\ pc' = after_corrector(diffuser, r.err)
         /\ theta' = IF pc' = "raised" THEN NoBatch ELSE r.theta
         /\ i' = IF pc' = "loop" THEN i + 1 ELSE i
  /\ UNCHANGED <<PREDICTORS, pred, diffuser, op, out, num_samples, ts, ret, runs>>

\* the loop is exhausted: return theta
RunReturn ==
  /\ pc = "loop"
  /\ ~in_range(ts, i)
  /\ ret' = theta
  /\ theta' = NoBatch
  /\ pc' = "returned"
  /\ UNCHANGED <<PREDICTORS, pred, diffuser, op, err, out, num_samples, ts, i,
                 runs, log>>

(* --------------------------- specifications --------------------------- *)
\* the registry: registrations and lookups
Next ==
  \/ \E name \in RegNames, t \in PredictorTypes : RegisterPredictor(name, t)
  \/ \E name \in Names, p \in ScorePotentials : GetPredictor(name, p)

Spec == Init /\ [][Next]_vars

\* values the estimator's alpha_fn and std_fn take, values a caller's bridge
\* function returns, particle values, times and noise draws
Scales == 1..MaxScale
BridgeValues == (0 - MaxBridge)..MaxBridge
Particles == {-1, 1}
PredictTimes == 0..MaxTime
Noises == {0, 1}

\* predictors are built and called
NextPredict ==
  \/ \E name \in Names, p \in ScorePotentials : GetPredictor(name, p)
  \/ \E p \in ScorePotentials, eta \in Etas : NewEulerMaruyama(p, eta)
  \/ \E p \in ScorePotentials \cup OtherPotentials, b \in BridgeArgs, eta \in Etas :
        NewDDIM(p, b, eta)
  \/ \E th \in Particles, t1, t0 \in PredictTimes, noise \in Noises :
        PredictEulerMaruyama(th, t1, t0, noise)
  \/ \E alpha, alpha_new, std, std_new \in Scales, user \in BridgeValues :
        PredictDDIM(alpha, alpha_new, std, std_new, user)

SpecPredict == Init /\ [][NextPredict]_vars

\* arguments of Diffuser: a predictor by name or built by the caller, a
\* corrector None, by name, or an object
PredictorArgs == {Str(n) : n \in Names} \cup {Obj(o) : o \in BuiltPredictors}
CorrectorArgs == {Obj(NoCorrector)} \cup {Str(n) : n \in CorrectorNames}
                 \cup {Obj(o) : o \in CorrectorObjects}

\* one Diffuser and its runs
NextRun ==
  \/ \E p \in ScorePotentials, a \in PredictorArgs, c \in CorrectorArgs :
        DiffuserNew(p, a, c)
  \/ \E c \in CorrectorArgs : SetCorrector(c)
  \/ \E n \in 1..MaxSamples, sched \in Schedules : RunCall(n, sched)
  \/ \E o \in Outcomes : RunPredict(o)
  \/ \E o \in Outcomes : RunCorrect(o)
  \/ RunReturn

SpecRun == Init /\ [][NextRun]_vars

\* shapes of at most rank dimensions
Shapes(rank) == UNION {[1..n -> 1..MaxDim] : n \in 0..rank}

\* potentials whose estimator has moments, inputs and conditions of all
\* small shapes; x_o is a batch of conditions
ShapePotentials ==
  { [name |-> "shape_potential", estimator |-> "VE", device |-> "cpu",
     T_min |-> 0, T_max |-> 1, mean_T |-> m, std_T |-> sd,
     input_shape |-> inp, condition_shape |-> <<2>>, x_o_shape |-> b \o <<2>>] :
    m \in Shapes(MaxRank), sd \in Shapes(1), inp \in [1..1 -> 1..MaxDim],
    b \in Shapes(MaxRank - 1) }

\* a Diffuser built on any of them
InitShapes ==
  /\ PREDICTORS = LoadedRegistry
  /\ pred = NoPredictor
  /\ diffuser \in {DiffuserInit(LoadedRegistry, p, Str("ddim"), Obj(NoCorrector)).val :
                     p \in ShapePotentials}
  /\ op = [fn |-> "Diffuser", args |-> <<>>]
  /\ err = "none"
  /\ out = NoOut
  /\ pc = "idle"
  /\ num_samples = 1
  /\ ts = <<>>
  /\ i = 1
  /\ theta = NoBatch
  /\ ret = NoBatch
  /\ runs = 0
  /\ log = <<>>

\* diffuser.initialize(n)
CallInitialize(n) ==
  /\ Quiet
  /\ diffuser # NoDiffuser
  /\ LET r == initialize(diffuser, n)
     IN  /\ out' = [fn |-> "initialize", shape |-> r.shape]
         /\ Finish("initialize", <<n>>, r.err)
  /\ UNCHANGED <<PREDICTORS, pred, diffuser>>

NextInitialize == \E n \in 1..MaxSamples : CallInitialize(n)

SpecInitialize == InitShapes /\ [][NextInitialize]_vars

(* ============================== claims ================================ *)
(* ------------------------------- C1 ----------------------------------- *)
RECURSIVE ExpectedSteps(_, _, _)
\* the steps run is to have applied after k iterations over sched
ExpectedSteps(sched, k, corrects) ==
  IF k = 0 THEN <<>>
  ELSE ExpectedSteps(sched, k - 1, corrects)
       \o <<(<<"predict", sched[k], sched[k + 1]>>)>>
       \o (IF corrects THEN <<(<<"correct", sched[k + 1]>>)>> ELSE <<>>)

Iterations(sched) == IF Len(sched) >= 2 THEN Len(sched) - 1 ELSE 0

\* C1: run calls initialize exactly once and first; at every loop head the
\* batch is the initial one with, for each pair (ts[i-1], ts[i]) so far in
\* increasing i, one predictor step and then (if a corrector is configured)
\* one corrector step at ts[i]; every call recorded took the output of the
\* one before it; the batch returned is the one after len(ts) - 1 pairs, and
\* the initial batch itself when len(ts) <= 1.
C1_RunAppliesEachPairOnce ==
  LET corrects == diffuser.corrector # NoCorrector
      CallsChain(final) ==
        /\ Len(log) = 1 + Len(final)
        /\ log[1].fn = "initialize"
        /\ \A k \in 2..Len(log) :
             /\ log[k].fn = final[k - 1][1]
             /\ log[k].t = Tail(final[k - 1])
             /\ log[k].arg.noise = runs
             /\ log[k].arg.steps = SubSeq(final, 1, k - 2)
  IN  /\ pc = "loop" =>
           /\ theta.steps = ExpectedSteps(ts, i - 1, corrects)
           /\ CallsChain(theta.steps)
      /\ pc = "returned" =>
           /\ ret.steps = ExpectedSteps(ts, Iterations(ts), corrects)
           /\ ret.noise = runs
           /\ CallsChain(ret.steps)
           /\ Len(ts) <= 1 => ret.steps = <<>>
           /\ Len(ts) = 2 =>
                Len(ret.steps) = IF corrects THEN 2 ELSE 1

C1_Witness ==
  /\ pc = "returned"
  /\ Len(ts) = 3
  /\ diffuser.corrector # NoCorrector
  /\ Len(ret.steps) = 4

(* ------------------------------- C2 ----------------------------------- *)
\* the predictor argument of the last Diffuser(...) call is a name that the
\* registry does not hold
UnknownPredictorName ==
  /\ op.fn = "Diffuser"
  /\ op.args[2].str
  /\ op.args[2].name \notin DOMAIN PREDICTORS

\* C2: Diffuser(..., predictor = a name not in PREDICTORS, ...) raises
\* KeyError, no Diffuser comes to exist, so that no run, initialize or step
\* has happened, and the registry is the one from before the call.
C2_UnknownNameFailsAtConstruction ==
  /\ [](UnknownPredictorName =>
          /\ err = "KeyError"
          /\ diffuser = NoDiffuser
          /\ runs = 0 /\ log = <<>> /\ pc = "idle")
  /\ [][op'.fn = "Diffuser" => PREDICTORS' = PREDICTORS]_vars

C2_Witness ==
  /\ UnknownPredictorName
  /\ op.args[2].name = "euler_maruyama"
  /\ err = "KeyError"
  /\ diffuser = NoDiffuser

(* ------------------------------- C3 ----------------------------------- *)
\* the last call registered, or tried to register, one of these types
Registering(types) == op.fn = "register_predictor" /\ TypeOf(op.args[2]) \in types

LacksPredict == {t \in PredictorTypes : ~t.predict}
NotSubclass == {t \in PredictorTypes : ~t.subclass}

\* C3 as stated: registering a type without a usable predict method raises
\* and leaves the registry as it was.
C3_NonConformingRejected ==
  [][Registering(LacksPredict)' => (err' # "none" /\ PREDICTORS' = PREDICTORS)]_vars

\* C3 amended: registering a type that is not a subclass of Predictor raises
\* AssertionError in register_predictor and leaves the registry as it was,
\* so that the registry holds subclasses of Predictor only; a subclass that
\* leaves predict abstract is registered, and fails in get_predictor.
C3_NonSubclassRejected ==
  /\ [][Registering(NotSubclass)' =>
          (err' = "AssertionError" /\ PREDICTORS' = PREDICTORS)]_vars
  /\ [](\A n \in DOMAIN PREDICTORS : TypeOf(PREDICTORS[n]).subclass)
  /\ []((op.fn = "get_predictor" /\ op.args[1] \in DOMAIN PREDICTORS) =>
          (err = "none" <=> TypeOf(PREDICTORS[op.args[1]]).predict))

C3_Witness ==
  /\ op.fn = "register_predictor"
  /\ op.args = <<"ddim", "DuckStep">>
  /\ err = "AssertionError"
  /\ PREDICTORS["ddim"] = "EulerMaruyama"

(* ------------------------------- C4 ----------------------------------- *)
\* C4: EulerMaruyama(score_fn, eta) raises for eta <= 0 and otherwise gives
\* an instance whose eta is the argument; get_predictor builds it with the
\* default eta; no EulerMaruyama has eta <= 0; predict leaves the instance
\* as it is.
C4_EulerMaruyamaEta ==
  /\ [](pred.cls = "EulerMaruyama" => pred.eta > 0)
  /\ [](op.fn = "EulerMaruyama" =>
          IF op.args[2] > 0
            THEN err = "none" /\ pred.cls = "EulerMaruyama" /\ pred.eta = op.args[2]
            ELSE err = "AssertionError")
  /\ []((op.fn = "get_predictor" /\ err = "none" /\ pred.cls = "EulerMaruyama") =>
          pred.eta = DefaultEta)
  /\ [][op'.fn = "predict" => pred' = pred]_vars

C4_Witness ==
  /\ op.fn = "EulerMaruyama"
  /\ op.args[2] = 0
  /\ err = "AssertionError"
  /\ pred.cls = "EulerMaruyama"
  /\ pred.eta = DefaultEta + 1

(* ------------------------------- C5 ----------------------------------- *)
\* C5: the constructor of every predictor with an eta parameter raises for
\* eta <= 0, so that no such predictor has eta <= 0.
C5_EveryEtaChecked ==
  /\ (op.fn = "EulerMaruyama" /\ op.args[2] <= 0) => err # "none"
  /\ (op.fn = "DDIM" /\ op.args[3] <= 0) => err # "none"
  /\ pred.cls \in {"EulerMaruyama", "DDIM"} => pred.eta > 0

(* ------------------------------- C6 ----------------------------------- *)
\* set_corrector takes the object without raising
AcceptedBySetCorrector(c) == set_corrector(BlankDiffuser, Obj(c)).err = "none"

\* C6: run never fails with a TypeError in the corrector call of a corrector
\* object that set_corrector accepted.
C6_AcceptedCorrectorIsCallable ==
  ~ /\ pc = "raised"
    /\ err = "TypeError"
    /\ log[Len(log)].fn = "correct"
    /\ diffuser.corrector \in CorrectorObjects
    /\ AcceptedBySetCorrector(diffuser.corrector)

(* ------------------------------- C7 ----------------------------------- *)
\* C7: in DDIM.predict, whatever number the bridge function returns, the
\* clipped std_bridge is at most std, the radicand std**2 - std_bridge**2 is
\* not negative, and new_position is not NaN.
C7_BridgeWithinStd ==
  (out.fn = "DDIM.predict" /\ ~IsNaN(out.bridge)) =>
    /\ AtMost(out.std_bridge, out.std)
    /\ out.radicand.n >= 0
    /\ ~out.nan

(* ------------------------------- C8 ----------------------------------- *)
\* the shape (num_batch, num_samples, *input_shape) of the last initialize
TargetShape == <<numel(diffuser.batch_shape), op.args[1]>> \o diffuser.input_shape

\* shape a broadcasts against shape b: aligned from the right, the sizes are
\* equal or one of them is 1
BroadcastsAgainst(a, b) ==
  \A k \in 1..Max(Len(a), Len(b)) :
    \/ DimFromRight(a, k) = DimFromRight(b, k)
    \/ DimFromRight(a, k) = 1
    \/ DimFromRight(b, k) = 1

\* shape a expands to shape b: no more dimensions, and each of size 1 or of
\* the size b has there
ExpandsTo(a, b) ==
  /\ Len(a) <= Len(b)
  /\ \A k \in 1..Len(a) : DimFromRight(a, k) \in {1, DimFromRight(b, k)}

\* C8 as stated: whenever init_mean and init_std broadcast against
\* (num_batch, num_samples, *input_shape), initialize returns that shape.
C8_ShapeForBroadcastable ==
  (/\ op.fn = "initialize"
   /\ BroadcastsAgainst(diffuser.init_mean, TargetShape)
   /\ BroadcastsAgainst(diffuser.init_std, TargetShape)
   /\ BroadcastsAgainst(diffuser.init_mean, diffuser.init_std))
  => (err = "none" /\ out.shape = TargetShape)

\* C8 amended: whenever init_mean and init_std expand to
\* (num_batch, num_samples, *input_shape), initialize returns that shape.
C8_ShapeForExpandable ==
  (/\ op.fn = "initialize"
   /\ ExpandsTo(diffuser.init_mean, TargetShape)
   /\ ExpandsTo(diffuser.init_std, TargetShape))
  => (err = "none" /\ out.shape = TargetShape)

C8_Witness ==
  /\ op.fn = "initialize"
  /\ op.args[1] = 2
  /\ diffuser.batch_shape = <<2>>
  /\ diffuser.init_mean = <<2, 1, 2>>
  /\ diffuser.init_std = <<2>>
  /\ err = "none"
  /\ out.shape = <<2, 2, 2>>

(* ------------------------------- C9 ----------------------------------- *)
\* C9: a predictor or corrector call that raised is the last call of its
\* run: run has ended with that exception, and has returned no batch.
C9_ErrorEndsRun ==
  \A k \in 1..Len(log) :
    log[k].out # "none" =>
      /\ k = Len(log)
      /\ pc = "raised"
      /\ err = log[k].out
      /\ ret = NoBatch
      /\ theta = NoBatch

C9_Witness ==
  /\ pc = "raised"
  /\ Len(log) = 3
  /\ log[3].fn = "correct"
  /\ log[3].out = "RuntimeError"
  /\ in_range(ts, i + 1)

(* ------------------------------- C10 ---------------------------------- *)
\* C10: no step of run changes the Diffuser, and the batch a call works on
\* and returns comes from the initialize call of that very call.
C10_RunsShareNoState ==
  /\ [][pc' # "idle" => diffuser' = diffuser]_vars
  /\ [](pc \in {"loop", "correct"} => theta.noise = runs)
  /\ [](pc = "returned" => ret.noise = runs)
  /\ [](pc \notin {"idle", "raised"} =>
          /\ log[1].fn = "initialize"
          /\ \A k \in 2..Len(log) : log[k].arg.noise = runs)

C10_Witness ==
  /\ runs = 2
  /\ pc = "returned"
  /\ ret.noise = 2
  /\ Len(ret.steps) = 2

(* ------------------------------- C11 ---------------------------------- *)
\* the step is a register_predictor call that returned
Registered == op'.fn = "register_predictor" /\ err' = "none"

\* C11: register_predictor(name)(t) succeeds for every subclass t of
\* Predictor, under a fresh and under a registered name alike; a call that
\* succeeds leaves the registry mapping name to t, adds no other name and
\* changes no entry under another name; so the registry maps each name to
\* the implementation registered under it last.
C11_LastRegistrationWins ==
  /\ [][(op'.fn = "register_predictor" /\ TypeOf(op'.args[2]).subclass) =>
          err' = "none"]_vars
  /\ [][Registered =>
          /\ DOMAIN PREDICTORS' = DOMAIN PREDICTORS \cup {op'.args[1]}
          /\ PREDICTORS'[op'.args[1]] = op'.args[2]
          /\ \A n \in DOMAIN PREDICTORS \ {op'.args[1]} :
                PREDICTORS'[n] = PREDICTORS[n]]_vars

\* "ddim", registered as DDIM at load, was registered again
C11_Witness ==
  /\ op.fn = "register_predictor"
  /\ op.args = <<"ddim", "AbstractStep">>
  /\ err = "none"
  /\ PREDICTORS["ddim"] = "AbstractStep"
  /\ PREDICTORS["euler_maruyma"] = "EulerMaruyama"
  /\ "mine" \in DOMAIN PREDICTORS

(* ------------------------------- C12 ---------------------------------- *)
\* the last call was predict(theta, t1, t0) on an EulerMaruyama
EulerMaruyamaStepped == out.fn = "EulerMaruyama.predict"

\* twice f_back = f - (1 + eta^2)/2 * g^2 * score, with f, g and score
\* taken at (theta, t)
TwiceFBack(eta, score_fn, th, t) ==
  2 * drift_fn(score_fn, th, t)
  - (1 + eta * eta) * diffusion_fn(score_fn, th, t)
      * diffusion_fn(score_fn, th, t) * score_of(score_fn, th, t)

\* the result of the last call is theta - f_back*dt + g_back*sqrt(dt)*noise,
\* dt = t1 - t0, g_back = eta*g, with f, g and score taken at (theta, t1)
EulerMaruyamaFormula ==
  LET th == op.args[1]
      t1 == op.args[2]
      t0 == op.args[3]
  IN  /\ out.dt = t1 - t0
      /\ out.twice_mean =
           2 * th - TwiceFBack(pred.eta, pred.score_fn, th, t1) * (t1 - t0)
      /\ out.coef = pred.eta * diffusion_fn(pred.score_fn, th, t1) * out.noise

\* the result of the last call is the number
\* theta - (f - (1 + eta^2)/2 * g^2 * score) * (t1 - t0)
DriftOnlyStep ==
  /\ ~out.nan
  /\ out.coef = 0
  /\ out.twice_mean =
       2 * op.args[1]
       - TwiceFBack(pred.eta, pred.score_fn, op.args[1], op.args[2])
           * (op.args[2] - op.args[3])

PotentialNamed(n) == CHOOSE p \in ScorePotentials \cup OtherPotentials : p.name = n

\* the bridge the claim prescribes for a potential and a std_bridge argument
PrescribedBridge(p, b) ==
  IF b # "None" THEN b
  ELSE IF PotentialNamed(p).estimator = "VE" THEN "ve_default_bridge"
  ELSE "vp_default_bridge"

\* C13: DDIM(score_fn, std_bridge, eta) holds the caller's std_bridge if one
\* was given, whatever the estimator; given none (also when built by
\* get_predictor) it holds ve_default_bridge if the estimator is
\* variance-exploding and vp_default_bridge for every other estimator;
\* predict leaves the instance, hence the choice, as it is, and the bridge
\* value it uses is the one the chosen function gives for its arguments.
C13_BridgeFixedAtConstruction ==
  /\ [](op.fn = "DDIM" =>
          pred.std_bridge = PrescribedBridge(op.args[1], op.args[2]))
  /\ []((op.fn = "get_predictor" /\ op.args[1] = "ddim") =>
          pred.std_bridge = PrescribedBridge(op.args[2], "None"))
  /\ [][(pred.cls = "DDIM" /\ op'.fn = "predict") =>
          pred'.std_bridge = pred.std_bridge]_vars
  /\ [](out.fn = "DDIM.predict" =>
          out.bridge =
            CASE pred.std_bridge = "ve_default_bridge" ->
                   ve_default_bridge(op.args[1], op.args[2], op.args[3], op.args[4])
              [] pred.std_bridge = "vp_default_bridge" ->
                   vp_default_bridge(op.args[1], op.args[2], op.args[3], op.args[4])
              [] OTHER -> out.bridge)
  /\ []((out.fn = "DDIM.predict" /\ pred.std_bridge = "user_bridge") =>
          \E u \in BridgeValues : out.bridge = Real(u))

\* a caller's bridge on a variance-exploding estimator, used by predict
C13_Witness ==
  /\ out.fn = "DDIM.predict"
  /\ pred.score_fn = "ve_potential"
  /\ pred.std_bridge = "user_bridge"
  /\ out.bridge = Real(-2)

(* ------------------------------- C14 ---------------------------------- *)
\* the last call was Diffuser(p, name, corrector) with the predictor given
\* by name
DiffuserByName == op.fn = "Diffuser" /\ op.args[2].str

\* C14: with no registration after load, the registry holds "euler_maruyma"
\* -> EulerMaruyama and "ddim" -> DDIM and nothing else; a Diffuser built
\* from one of the two names has a predictor of that class on the given
\* potential with eta at its default (and, for DDIM, no bridge argument);
\* with any other name, "euler_maruyama" included, the lookup raises KeyError
\* and no Diffuser is built.
C14_LoadedNames ==
  /\ DOMAIN PREDICTORS = {"euler_maruyma", "ddim"}
  /\ PREDICTORS["euler_maruyma"] = "EulerMaruyama"
  /\ PREDICTORS["ddim"] = "DDIM"
  /\ (DiffuserByName /\ op.args[2].name \in {"euler_maruyma", "ddim"}
        /\ err = "none") =>
       /\ diffuser # NoDiffuser
       /\ diffuser.predictor.cls =
            (IF op.args[2].name = "ddim" THEN "DDIM" ELSE "EulerMaruyama")
       /\ diffuser.predictor.score_fn = op.args[1]
       /\ diffuser.predictor.eta = DefaultEta
       /\ diffuser.predictor.cls = "DDIM" =>
            diffuser.predictor.std_bridge \in
              {"ve_default_bridge", "vp_default_bridge"}
  /\ (DiffuserByName /\ op.args[2].name \in {"euler_maruyma", "ddim"}) =>
       err # "KeyError" \/ op.args[3] = Str("unknown")
  /\ (DiffuserByName /\ op.args[2].name \notin {"euler_maruyma", "ddim"}) =>
       (err = "KeyError" /\ diffuser = NoDiffuser)

\* a Diffuser built from the registered (misspelled) name
C14_Witness ==
  /\ DiffuserByName
  /\ op.args[2].name = "euler_maruyma"
  /\ err = "none"
  /\ diffuser.predictor.cls = "EulerMaruyama"
  /\ diffuser.predictor.eta = DefaultEta

====
